---- MODULE Spec2Model ----
(***************************************************************************)
(* MinIO CSV export (superset/utils/minio_storage.py): the streaming       *)
(* splitter/uploader stream_csv_to_minio, the archive consolidator         *)
(* _create_zip_from_uploaded_files, the retention sweep cleanup_old_files  *)
(* and the client bootstrap _initialize_client, run against one bucket.    *)
(*                                                                         *)
(* Text is a sequence of tokens (abstract characters): "NL" is "\n", "SP"  *)
(* a whitespace character, "COLON" is ":", "MARK" the literal              *)
(* __STREAM_ERROR__, every other token a run of ordinary characters.       *)
(* Bytes written to a buffer are the same tokens (utf-8 is injective).     *)
(***************************************************************************)
EXTENDS Integers, Sequences, FiniteSets, TLC

VARIABLES now, store, bucket, appConfig, job, mgr, sweep, cmd, probe

vars == <<now, store, bucket, appConfig, job, mgr, sweep, cmd, probe>>

(* ------------------------------ bounds --------------------------------- *)
MaxRows == 3
MaxLimit == 2
MaxTime == 4
MaxSweeps == 1

(* ------------------------- program constants --------------------------- *)
DefaultMaxRowsPerFile == 1000000
DefaultRetentionSeconds == 604800
ExpirySeconds == 3600

(* ------------------------------ text ----------------------------------- *)
NL == "NL"
SP == "SP"
COLON == "COLON"
MARK == "MARK"
CSV == ".csv"
ZIP == ".zip"

RowNames == <<"r1", "r2", "r3", "r4", "r5", "r6">>
Row(i) == <<RowNames[i]>>
Header == <<"H">>

\* str(file_index)
IndexStr(i) == <<"1", "2", "3", "4", "5", "6", "7">>[i]

RECURSIVE SplitFrom(_, _, _)
\* s.split(sep): the pieces between the separators, empty pieces included
SplitFrom(s, sep, cur) ==
    IF s = <<>> THEN <<cur>>
    ELSE IF Head(s) = sep THEN <<cur>> \o SplitFrom(Tail(s), sep, <<>>)
    ELSE SplitFrom(Tail(s), sep, Append(cur, Head(s)))

Split(s, sep) == SplitFrom(s, sep, <<>>)

RECURSIVE SplitOnce(_, _, _)
\* s.split(sep, 1): at most two pieces, cut at the first separator
SplitOnce(s, sep, cur) ==
    IF s = <<>> THEN <<cur>>
    ELSE IF Head(s) = sep THEN <<cur, Tail(s)>>
    ELSE SplitOnce(Tail(s), sep, Append(cur, Head(s)))

IsSpace(t) == t \in {SP, NL}

RECURSIVE LStrip(_)
LStrip(s) == IF s # <<>> /\ IsSpace(Head(s)) THEN LStrip(Tail(s)) ELSE s

RECURSIVE RStrip(_)
RStrip(s) ==
    IF s # <<>> /\ IsSpace(s[Len(s)]) THEN RStrip(SubSeq(s, 1, Len(s) - 1)) ELSE s

StripNothing(s) == s

\* s.strip()
Strip(s) == RStrip(LStrip(s))

RECURSIVE Replace(_, _, _)
\* s.replace(old, new) for a one-token old
Replace(s, old, new) ==
    IF s = <<>> THEN <<>>
    ELSE (IF Head(s) = old THEN new ELSE <<Head(s)>>) \o Replace(Tail(s), old, new)

\* "__STREAM_ERROR__" in chunk
HasMarker(chunk) == \E i \in 1..Len(chunk) : chunk[i] = MARK

\* (line + "\n").encode("utf-8")
EncodeLine(line) == line \o <<NL>>

Min(a, b) == IF a <= b THEN a ELSE b

EndsWith(s, t) == s # <<>> /\ s[Len(s)] = t

(* --------------------------- configuration ----------------------------- *)
\* dict.get(key, default)
Get(d, key, default) == IF key \in DOMAIN d THEN d[key] ELSE default

\* MinIOStorageManager.__init__: no client, an empty _config. `calls` is the
\* manager's record of its bootstrap calls: the construction of the client
\* ("Minio"), bucket_exists with what it reported, make_bucket.
NewManager == [client |-> FALSE, config |-> <<>>, calls |-> <<>>]

\* get_max_rows_per_file: read from the manager's _config, not from the app
get_max_rows_per_file(m) == Get(m.config, "max_rows_per_file", DefaultMaxRowsPerFile)

(* ------------------------------ the store ------------------------------ *)
\* f"exports/{timestamp}_{filename}"
ExportName(ts, file) == [dir |-> "exports/", ts |-> ts, file |-> file]

\* object_name.split("/")[-1] (the file part holds no "/")
BareName(name) == [ts |-> name.ts, file |-> name.file]

NoEntries == <<>>

\* content_type of _upload_file_streaming
ContentType(name) == IF EndsWith(name.file, CSV) THEN "text/csv" ELSE "application/zip"

Obj(name, data, entries, t) ==
    [content_type |-> ContentType(name), data |-> data, entries |-> entries,
     has_lm |-> TRUE, lm |-> t]

RemoveNothing(st, name) == st

Remove(st, name) == [n \in DOMAIN st \ {name} |-> st[n]]

PutNowhere(st, name, o) == st

Put(st, name, o) == [n \in DOMAIN st \cup {name} |-> IF n = name THEN o ELSE st[n]]

\* The outcomes of one store call: it succeeds, or it fails and changes nothing.
Outcomes == {"ok", "fail"}

ClientCachedNever(m) == FALSE

\* lines 55-56: self._client is not None
ClientCached(m) == m.client

\* What the bootstrap's bucket calls can do: a manager with a cached client
\* issues none, and make_bucket is called only for an absent bucket.
BucketFaults(m, bkt) ==
    IF ClientCached(m) THEN {"none"}
    ELSE IF bkt THEN {"none", "bucket_exists"}
    ELSE {"none", "bucket_exists", "make_bucket"}

(* --------------------------- _initialize_client ------------------------ *)
CredentialsMissingBoth(cfg) ==
    Get(cfg, "access_key", "") = "" /\ Get(cfg, "secret_key", "") = ""

\* line 77: not access_key or not secret_key
CredentialsMissing(cfg) ==
    Get(cfg, "access_key", "") = "" \/ Get(cfg, "secret_key", "") = ""

\* Result: the error raised ("" for none), the manager and the bucket afterwards,
\* and whether a store call was issued.
InitializeClient(m, cfg, bkt, fault) ==
    IF ClientCached(m)
    THEN [err |-> "", mgr |-> m, bucket |-> bkt, io |-> FALSE]
    ELSE LET m1 == [m EXCEPT !.config = cfg] IN
         IF ~Get(m1.config, "enabled", FALSE)
         THEN [err |-> "ValueError: not enabled", mgr |-> m1, bucket |-> bkt,
               io |-> FALSE]
         ELSE IF CredentialsMissing(m1.config)
         THEN [err |-> "ValueError: credentials", mgr |-> m1, bucket |-> bkt,
               io |-> FALSE]
         ELSE LET m2 == [m1 EXCEPT !.client = TRUE, !.calls = Append(@, "Minio")]
                  Called(c) == [m2 EXCEPT !.calls = @ \o c]
              IN
              IF fault = "bucket_exists"
              THEN [err |-> "StoreError: bucket_exists",
                    mgr |-> Called(<<"bucket_exists: error">>),
                    bucket |-> bkt, io |-> TRUE]
              ELSE IF bkt
              THEN [err |-> "", mgr |-> Called(<<"bucket_exists: present">>),
                    bucket |-> bkt, io |-> TRUE]
              ELSE IF fault = "make_bucket"
              THEN [err |-> "StoreError: make_bucket",
                    mgr |-> Called(<<"bucket_exists: absent", "make_bucket: error">>),
                    bucket |-> bkt, io |-> TRUE]
              ELSE [err |-> "",
                    mgr |-> Called(<<"bucket_exists: absent", "make_bucket">>),
                    bucket |-> TRUE, io |-> TRUE]

\* A job's record of one store call on an object: the call, the object, whether
\* it succeeded, and the bytes sent with it (a put's).
Op(op, name, ok, data, entries) ==
    [op |-> op, name |-> name, ok |-> ok, sent |-> [data |-> data, entries |-> entries]]

(* ------------------------ _upload_file_streaming ----------------------- *)
\* One put_object after the bootstrap. Result: err, mgr, bucket, store, and the
\* store calls issued on objects (ops).
UploadFileStreaming(m, cfg, bkt, st, t, name, data, entries, fault, outcome) ==
    LET c == InitializeClient(m, cfg, bkt, fault) IN
    IF c.err # ""
    THEN [err |-> c.err, mgr |-> c.mgr, bucket |-> c.bucket, store |-> st,
          ops |-> <<>>]
    ELSE IF outcome = "fail" \/ ~c.bucket
    THEN [err |-> "StoreError: put_object", mgr |-> c.mgr, bucket |-> c.bucket,
          store |-> st, ops |-> <<Op("put", name, FALSE, data, entries)>>]
    ELSE [err |-> "", mgr |-> c.mgr, bucket |-> c.bucket,
          store |-> Put(st, name, Obj(name, data, entries, t)),
          ops |-> <<Op("put", name, TRUE, data, entries)>>]

(* ------------------------------ sources -------------------------------- *)
\* header + n data rows, as lines
SourceLines(n) == <<Header>> \o [i \in 1..n |-> Row(i)]

RECURSIVE JoinLines(_)
JoinLines(ls) == IF ls = <<>> THEN <<>> ELSE EncodeLine(Head(ls)) \o JoinLines(Tail(ls))

RECURSIVE Chunked(_, _)
\* The generator's output: k whole lines per chunk, each ended by "\n".
Chunked(ls, k) ==
    IF ls = <<>> THEN <<>>
    ELSE LET t == Min(k, Len(ls)) IN
         <<JoinLines(SubSeq(ls, 1, t))>> \o Chunked(SubSeq(ls, t + 1, Len(ls)), k)

\* The upstream producer's error chunks: the marker alone with its message, the
\* marker after a row that holds a colon itself, and a marker with no colon.
ErrorChunks ==
    { <<MARK, COLON, SP, "boom">>,
      <<"x9", COLON, "y9", NL, MARK, COLON, SP, "boom">>,
      <<MARK>> }

ChunkSizes == {1, 2}

CleanSources == { Chunked(SourceLines(n), k) : n \in 0..MaxRows, k \in ChunkSizes }

\* A source cut short by an error chunk: at once, or after a header and two
\* data rows.
FailingSources ==
    { <<x>> : x \in ErrorChunks }
      \cup { Chunked(SourceLines(2), 1) \o <<x>> : x \in ErrorChunks }

EmptySources == { <<>>, <<<<SP, NL, NL>>>> }

Sources == CleanSources \cup FailingSources \cup EmptySources

\* max_rows_per_file as passed: <<>> is None
LimitArgs == { <<m>> : m \in 1..MaxLimit }

\* The calls stream_csv_to_minio(csv_generator, filename, max_rows_per_file):
\* every source under a base name "a.csv", and a base name without the
\* extension for a one-file and a two-file export.
Calls ==
    (Sources \X {<<"a", CSV>>} \X LimitArgs)
      \cup ({Chunked(SourceLines(2), 1)} \X {<<"a">>} \X {<<1>>, <<2>>})

(* ------------------------------ a job ---------------------------------- *)
Jobs == {1, 2}

NoResult == [object_name |-> ExportName(0, <<>>), total_rows |-> 0, file_count |-> 0]

\* A call of stream_csv_to_minio not yet entered.
NewJob(src, filename, arg) ==
    [pc |-> "new", gen |-> src, source |-> src, lines |-> <<>>,
     filename |-> filename, arg |-> arg, max_rows_per_file |-> 0,
     timestamp |-> 0, uploaded_files |-> <<>>, buf |-> <<>>,
     current_file_rows |-> 0, total_rows |-> 0, file_index |-> 1,
     header |-> <<>>, zi |-> 1, zip_entries |-> <<>>,
     result |-> NoResult, err |-> "", errmsg |-> <<>>, ops |-> <<>>]

OffJob == [NewJob(<<>>, <<>>, <<>>) EXCEPT !.pc = "off"]

\* lines 319-328: the limit, the timestamp token and the locals
Start(j) ==
    /\ job[j].pc = "new"
    /\ job' = [job EXCEPT ![j] =
         [@ EXCEPT !.pc = "read",
                   !.max_rows_per_file =
                       IF job[j].arg = <<>> THEN get_max_rows_per_file(mgr[j])
                       ELSE job[j].arg[1],
                   !.timestamp = now]]
    /\ UNCHANGED <<now, store, bucket, appConfig, cmd, probe, mgr, sweep>>

ErrorOfBeforeColon(chunk) ==
    LET parts == SplitOnce(chunk, COLON, <<>>) IN
    IF Len(parts) < 2 THEN [err |-> "IndexError", msg |-> <<>>]
    ELSE [err |-> "ValueError", msg |-> Strip(parts[1])]

\* chunk.split(":", 1)[1].strip(): IndexError when the chunk has no colon
ErrorOf(chunk) ==
    LET parts == SplitOnce(chunk, COLON, <<>>) IN
    IF Len(parts) < 2 THEN [err |-> "IndexError", msg |-> <<>>]
    ELSE [err |-> "ValueError", msg |-> Strip(parts[2])]

\* lines 352-357: the next chunk of the generator
ReadChunk(j) ==
    /\ job[j].pc = "read"
    /\ job[j].gen # <<>>
    /\ LET chunk == Head(job[j].gen) IN
       job' = [job EXCEPT ![j] =
         IF HasMarker(chunk)
         THEN [@ EXCEPT !.pc = "failed", !.gen = Tail(@),
                        !.err = ErrorOf(chunk).err, !.errmsg = ErrorOf(chunk).msg]
         ELSE [@ EXCEPT !.pc = "lines", !.gen = Tail(@), !.lines = Split(chunk, NL)]]
    /\ UNCHANGED <<now, store, bucket, appConfig, cmd, probe, mgr, sweep>>

SegmentNameAlwaysIndexed(jr) ==
    ExportName(jr.timestamp,
               Replace(jr.filename, CSV, <<>>) \o <<"_", IndexStr(jr.file_index), CSV>>)

\* finalize_current_file's object name, lines 336-341
SegmentName(jr) ==
    ExportName(jr.timestamp,
               IF Len(jr.uploaded_files) > 0
               THEN Replace(jr.filename, CSV, <<>>)
                        \o <<"_", IndexStr(jr.file_index), CSV>>
               ELSE jr.filename)

\* finalize_current_file, lines 330-350, on the job record jr, given what its
\* upload (u, of UploadFileStreaming) did. An empty buffer uploads nothing.
NeedsUploadAlways(jr) == TRUE

\* line 334: current_file_buffer.tell() > 0
NeedsUpload(jr) == Len(jr.buf) > 0

FinalizedKeepingBuffer(jr, u) ==
    IF ~NeedsUpload(jr) THEN jr
    ELSE IF u.err # ""
    THEN [jr EXCEPT !.pc = "failed", !.err = u.err, !.ops = @ \o u.ops]
    ELSE [jr EXCEPT !.uploaded_files = Append(@, SegmentName(jr)),
                    !.current_file_rows = 0,
                    !.file_index = @ + 1, !.ops = @ \o u.ops]

Finalized(jr, u) ==
    IF ~NeedsUpload(jr) THEN jr
    ELSE IF u.err # ""
    THEN [jr EXCEPT !.pc = "failed", !.err = u.err, !.ops = @ \o u.ops]
    ELSE [jr EXCEPT !.uploaded_files = Append(@, SegmentName(jr)),
                    !.buf = <<>>, !.current_file_rows = 0,
                    !.file_index = @ + 1, !.ops = @ \o u.ops]

\* The world after the upload u, or unchanged when there was none.
Apply(j, needed, u) ==
    IF needed
    THEN /\ store' = u.store
         /\ bucket' = u.bucket
         /\ mgr' = [mgr EXCEPT ![j] = u.mgr]
    ELSE UNCHANGED <<store, bucket, mgr>>

LimitReachedLate(jr) == jr.current_file_rows > jr.max_rows_per_file

LimitReachedEarly(jr) == jr.current_file_rows + 1 >= jr.max_rows_per_file

\* line 371
LimitReached(jr) == jr.current_file_rows >= jr.max_rows_per_file

NewFileBufferNoHeader(header) == <<>>

\* line 374: a new file starts with the header
NewFileBuffer(header) == EncodeLine(header)

\* lines 359-378: one line of the chunk
ProcessLine(j) ==
    /\ job[j].pc = "lines"
    /\ job[j].lines # <<>>
    /\ LET jr == job[j]
           line == Head(jr.lines)
           rest == [jr EXCEPT !.lines = Tail(@),
                              !.pc = IF Tail(jr.lines) = <<>> THEN "read" ELSE "lines"]
       IN
       IF Strip(line) = <<>>
       THEN /\ job' = [job EXCEPT ![j] = rest]
            /\ UNCHANGED <<store, bucket, mgr>>
       ELSE IF jr.header = <<>>
       THEN /\ job' = [job EXCEPT ![j] =
                 [rest EXCEPT !.header = <<line>>, !.buf = @ \o EncodeLine(line)]]
            /\ UNCHANGED <<store, bucket, mgr>>
       ELSE IF LimitReached(jr)
       THEN \E fault \in BucketFaults(mgr[j], bucket), outcome \in Outcomes :
              LET u == UploadFileStreaming(mgr[j], appConfig, bucket, store, now,
                           SegmentName(jr), jr.buf, NoEntries, fault, outcome)
                  f == Finalized(rest, u)
              IN /\ Apply(j, NeedsUpload(jr), u)
                 /\ job' = [job EXCEPT ![j] =
                      IF f.pc = "failed" THEN f
                      ELSE [f EXCEPT !.buf = @ \o NewFileBuffer(jr.header[1])
                                                \o EncodeLine(line),
                                     !.current_file_rows = @ + 1,
                                     !.total_rows = @ + 1]]
       ELSE /\ job' = [job EXCEPT ![j] =
                 [rest EXCEPT !.buf = @ \o EncodeLine(line),
                              !.current_file_rows = @ + 1,
                              !.total_rows = @ + 1]]
            /\ UNCHANGED <<store, bucket, mgr>>
    /\ UNCHANGED <<now, appConfig, cmd, probe, sweep>>

ZipObjectNameUnreplaced(jr) == ExportName(jr.timestamp, jr.filename)

\* line 390: the archive's object name
ZipObjectName(jr) == ExportName(jr.timestamp, Replace(jr.filename, CSV, <<ZIP>>))

\* lines 380-395 (and 412): end of the source: finalize the last file, then
\* fail on no file, return the only file, or enter the consolidation
FinalizeLast(j) ==
    /\ job[j].pc = "read"
    /\ job[j].gen = <<>>
    /\ \E fault \in BucketFaults(mgr[j], bucket), outcome \in Outcomes :
         LET jr == job[j]
             u == UploadFileStreaming(mgr[j], appConfig, bucket, store, now,
                      SegmentName(jr), jr.buf, NoEntries, fault, outcome)
             f == Finalized(jr, u)
             n == Len(f.uploaded_files)
         IN
         IF f.pc = "failed"
         THEN /\ Apply(j, NeedsUpload(jr), u)
              /\ job' = [job EXCEPT ![j] = f]
         ELSE IF n = 0
         THEN /\ Apply(j, NeedsUpload(jr), u)
              /\ job' = [job EXCEPT ![j] =
                   [f EXCEPT !.pc = "failed", !.err = "ValueError: No data to export"]]
         ELSE IF n > 1
         THEN LET m1 == IF NeedsUpload(jr) THEN u.mgr ELSE mgr[j]
                  b1 == IF NeedsUpload(jr) THEN u.bucket ELSE bucket
                  c == InitializeClient(m1, appConfig, b1, "none")
              IN /\ store' = IF NeedsUpload(jr) THEN u.store ELSE store
                 /\ bucket' = c.bucket
                 /\ mgr' = [mgr EXCEPT ![j] = c.mgr]
                 /\ job' = [job EXCEPT ![j] =
                      IF c.err # "" THEN [f EXCEPT !.pc = "failed", !.err = c.err]
                      ELSE [f EXCEPT !.pc = "zip_get", !.zi = 1, !.zip_entries = <<>>]]
         ELSE /\ Apply(j, NeedsUpload(jr), u)
              /\ job' = [job EXCEPT ![j] =
                   [f EXCEPT !.pc = "done",
                             !.result = [object_name |-> f.uploaded_files[1],
                                         total_rows |-> f.total_rows,
                                         file_count |-> n]]]
    /\ UNCHANGED <<now, appConfig, cmd, probe, sweep>>

BytesOfNothing(o) == [data |-> <<>>, entries |-> NoEntries]

\* What get_object(...).read() returns
Bytes(o) == [data |-> o.data, entries |-> o.entries]

\* lines 419-428: download one segment and write it into the archive
ZipGet(j) ==
    /\ job[j].pc = "zip_get"
    /\ \E outcome \in Outcomes :
         LET jr == job[j]
             name == jr.uploaded_files[jr.zi]
         IN job' = [job EXCEPT ![j] =
              IF outcome = "fail" \/ name \notin DOMAIN store
              THEN [jr EXCEPT !.pc = "failed", !.err = "StoreError: get_object",
                       !.ops = Append(@, Op("get", name, FALSE, <<>>, NoEntries))]
              ELSE [jr EXCEPT !.pc = "zip_remove",
                       !.zip_entries = Append(@, [name |-> BareName(name),
                                                  bytes |-> Bytes(store[name])]),
                       !.ops = Append(@, Op("get", name, TRUE, <<>>, NoEntries))]]
    /\ UNCHANGED <<now, store, bucket, appConfig, cmd, probe, mgr, sweep>>

\* line 431: delete the segment just archived, then the next one
ZipRemove(j) ==
    /\ job[j].pc = "zip_remove"
    /\ \E outcome \in Outcomes :
         LET jr == job[j]
             name == jr.uploaded_files[jr.zi]
         IN IF outcome = "fail"
            THEN /\ job' = [job EXCEPT ![j] =
                      [jr EXCEPT !.pc = "failed", !.err = "StoreError: remove_object",
                          !.ops = Append(@, Op("remove", name, FALSE, <<>>, NoEntries))]]
                 /\ UNCHANGED store
            ELSE /\ job' = [job EXCEPT ![j] =
                      [jr EXCEPT !.pc = IF jr.zi = Len(jr.uploaded_files)
                                        THEN "zip_put" ELSE "zip_get",
                          !.zi = @ + 1,
                          !.ops = Append(@, Op("remove", name, TRUE, <<>>, NoEntries))]]
                 /\ store' = Remove(store, name)
    /\ UNCHANGED <<now, bucket, appConfig, cmd, probe, mgr, sweep>>

\* lines 433-442 and 395: upload the archive and return
ZipPut(j) ==
    /\ job[j].pc = "zip_put"
    /\ \E fault \in BucketFaults(mgr[j], bucket), outcome \in Outcomes :
         LET jr == job[j]
             u == UploadFileStreaming(mgr[j], appConfig, bucket, store, now,
                      ZipObjectName(jr), <<>>, jr.zip_entries, fault, outcome)
         IN /\ Apply(j, TRUE, u)
            /\ job' = [job EXCEPT ![j] =
                 IF u.err # ""
                 THEN [jr EXCEPT !.pc = "failed", !.err = u.err, !.ops = @ \o u.ops]
                 ELSE [jr EXCEPT !.pc = "done", !.ops = @ \o u.ops,
                          !.result = [object_name |-> ZipObjectName(jr),
                                      total_rows |-> jr.total_rows,
                                      file_count |-> Len(jr.uploaded_files)]]]
    /\ UNCHANGED <<now, appConfig, cmd, probe, sweep>>

\* A job is computing locally when its next step touches neither the store nor
\* the clock: reading a chunk, skipping a blank line, taking the header, or
\* buffering a row below the limit.
Local(jr) ==
    \/ jr.pc = "read" /\ jr.gen # <<>>
    \/ /\ jr.pc = "lines"
       /\ \/ Strip(Head(jr.lines)) = <<>>
          \/ jr.header = <<>>
          \/ ~LimitReached(jr)

\* Local computation takes no time next to a store call: the clock and the
\* sweep move between a job's store calls, not inside a run of local steps
\* (local steps commute with them, so no interleaving of store calls is lost).
AtStoreCall == \A j \in Jobs : ~Local(job[j])

(* --------------------------- cleanup_old_files ------------------------- *)
\* The store lists keys in lexicographic order; TokenOrder ranks the tokens as
\* their first characters order ('.' < digits < '_' < letters).
TokenOrder ==
    <<CSV, ZIP, "1", "2", "3", "4", "5", "6", "7", "_", "a", "b", "dir", "edge", "old">>

TokenRank(t) == CHOOSE i \in 1..Len(TokenOrder) : TokenOrder[i] = t

RECURSIVE LexLess(_, _)
LexLess(a, b) ==
    IF b = <<>> THEN FALSE
    ELSE IF a = <<>> THEN TRUE
    ELSE IF Head(a) # Head(b) THEN TokenRank(Head(a)) < TokenRank(Head(b))
    ELSE LexLess(Tail(a), Tail(b))

KeyLess(x, y) == x.ts < y.ts \/ (x.ts = y.ts /\ LexLess(x.file, y.file))

RECURSIVE SortKeys(_)
SortKeys(S) ==
    IF S = {} THEN <<>>
    ELSE LET x == CHOOSE x \in S : \A y \in S \ {x} : KeyLess(x, y) IN
         <<x>> \o SortKeys(S \ {x})

\* list_objects(bucket, prefix="exports/", recursive=True)
ListObjects(st) ==
    LET keys == SortKeys({ n \in DOMAIN st : n.dir = "exports/" }) IN
    [i \in 1..Len(keys) |->
        [object_name |-> keys[i], has_lm |-> st[keys[i]].has_lm,
         last_modified |-> st[keys[i]].lm]]

ExpiredAtCutoff(obj, cutoff_time) == obj.has_lm /\ obj.last_modified <= cutoff_time

\* line 253
Expired(obj, cutoff_time) == obj.has_lm /\ obj.last_modified < cutoff_time

NewSweep ==
    [pc |-> "idle", mgr |-> NewManager, cutoff_time |-> 0, objects |-> <<>>,
     listed |-> <<>>, deleted_count |-> 0, returned |-> 0,
     removed |-> {}, attempted |-> {}, err |-> "", runs |-> 0, started |-> 0]

RECURSIVE SkipFresh(_, _)
\* The loop's iterations that remove nothing (line 253 false) touch no shared
\* state: they are taken together with the store call before them.
SkipFresh(objs, cutoff_time) ==
    IF objs # <<>> /\ ~Expired(Head(objs), cutoff_time)
    THEN SkipFresh(Tail(objs), cutoff_time) ELSE objs

\* The sweep with `objs` left to visit: in the loop, or returning its count.
Continue(sw, objs) ==
    LET rest == SkipFresh(objs, sw.cutoff_time) IN
    [sw EXCEPT !.objects = rest,
               !.pc = IF rest = <<>> THEN "done" ELSE "loop",
               !.returned = IF rest = <<>> THEN sw.deleted_count ELSE @]

RemoveFailedSwallowed(sw) ==
    Continue([sw EXCEPT !.attempted = @ \cup {Head(sw.objects).object_name}],
             Tail(sw.objects))

\* lines 254 and 261-263: remove_object raised on the next object; the error
\* leaves the loop, is logged and raised again
RemoveFailed(sw) ==
    [sw EXCEPT !.pc = "failed", !.err = "StoreError: remove_object",
               !.attempted = @ \cup {Head(sw.objects).object_name}]

\* lines 242-250: bootstrap, cutoff, listing
SweepStart ==
    /\ AtStoreCall
    /\ sweep.pc \in {"idle", "done", "failed"}
    /\ sweep.runs < MaxSweeps
    /\ \E fault \in BucketFaults(sweep.mgr, bucket), outcome \in Outcomes :
         LET c == InitializeClient(sweep.mgr, appConfig, bucket, fault)
             retention_seconds ==
                 Get(c.mgr.config, "file_retention_seconds", DefaultRetentionSeconds)
             fresh == [NewSweep EXCEPT !.mgr = c.mgr, !.runs = sweep.runs + 1,
                                       !.started = now]
             objs == ListObjects(store)
         IN /\ bucket' = c.bucket
            /\ sweep' =
                 IF c.err # "" THEN [fresh EXCEPT !.pc = "failed", !.err = c.err]
                 ELSE IF outcome = "fail" \/ ~c.bucket
                 THEN [fresh EXCEPT !.pc = "failed", !.err = "StoreError: list_objects",
                                    !.cutoff_time = now - retention_seconds]
                 ELSE Continue([fresh EXCEPT !.cutoff_time = now - retention_seconds,
                                             !.listed = objs], objs)
    /\ UNCHANGED <<now, store, appConfig, cmd, probe, job, mgr>>

\* lines 251-265: remove the next expired object of the listing; the count is
\* returned after the last object
SweepStep ==
    /\ AtStoreCall
    /\ sweep.pc = "loop"
    /\ \E outcome \in Outcomes :
         LET obj == Head(sweep.objects) IN
         IF outcome = "fail"
         THEN /\ sweep' = RemoveFailed(sweep)
              /\ UNCHANGED store
         ELSE /\ sweep' = Continue([sweep EXCEPT !.deleted_count = @ + 1,
                                       !.removed = @ \cup {obj.object_name},
                                       !.attempted = @ \cup {obj.object_name}],
                                   Tail(sweep.objects))
              /\ store' = Remove(store, obj.object_name)
    /\ UNCHANGED <<now, bucket, appConfig, cmd, probe, job, mgr>>

(* -------------------------------- time --------------------------------- *)
Tick ==
    /\ AtStoreCall
    /\ now < MaxTime
    /\ now' = now + 1
    /\ UNCHANGED <<store, bucket, appConfig, cmd, probe, job, mgr, sweep>>

(* --------------------------- the export commands ----------------------- *)
\* MinIOChartExportCommand / MinIOSqlLabExportCommand: run() streams through
\* the command's own manager (job j, manager j) and then asks for the link.
NoUrl == <<>>

NewCommand == [pc |-> "stream", download_url |-> NoUrl, returned |-> <<>>]

OffCommand == [NewCommand EXCEPT !.pc = "off"]

PresignedUrlOfAnything(object_name, expiry_seconds) ==
    <<[object_name |-> ExportName(0, <<>>), expires |-> expiry_seconds]>>

\* client.presigned_get_object(bucket_name, object_name, expires=...): the link
\* names the object and its expiry
PresignedUrl(object_name, expiry_seconds) ==
    <<[object_name |-> object_name, expires |-> expiry_seconds]>>

\* get_presigned_download_url, lines 206-226, on manager m. Result: err, mgr,
\* bucket and the link.
GetPresignedDownloadUrl(m, cfg, bkt, object_name, expiry_seconds, fault, outcome) ==
    LET c == InitializeClient(m, cfg, bkt, fault) IN
    IF c.err # ""
    THEN [err |-> c.err, mgr |-> c.mgr, bucket |-> c.bucket, url |-> NoUrl]
    ELSE IF outcome = "fail"
    THEN [err |-> "StoreError: presigned_get_object", mgr |-> c.mgr,
          bucket |-> c.bucket, url |-> NoUrl]
    ELSE [err |-> "", mgr |-> c.mgr, bucket |-> c.bucket,
          url |-> PresignedUrl(object_name, expiry_seconds)]

\* run(), after stream_csv_to_minio returned: the link and the result
\* dictionary. (A failure of the streaming step leaves run() by the exception:
\* the command then stays at "stream" with its job failed.)
PresignUrl(j) ==
    /\ cmd[j].pc = "stream"
    /\ job[j].pc = "done"
    /\ \E fault \in BucketFaults(mgr[j], bucket), outcome \in Outcomes :
         LET r == job[j].result
             g == GetPresignedDownloadUrl(mgr[j], appConfig, bucket, r.object_name,
                                          ExpirySeconds, fault, outcome)
         IN /\ mgr' = [mgr EXCEPT ![j] = g.mgr]
            /\ bucket' = g.bucket
            /\ cmd' = [cmd EXCEPT ![j] =
                 IF g.err # "" THEN [@ EXCEPT !.pc = "failed"]
                 ELSE [@ EXCEPT !.pc = "returned", !.download_url = g.url,
                          !.returned = <<[object_name |-> r.object_name,
                                          download_url |-> g.url,
                                          total_rows |-> r.total_rows,
                                          file_count |-> r.file_count,
                                          filename |-> BareName(r.object_name)]>>]]
    /\ UNCHANGED <<now, store, appConfig, job, sweep, probe>>

(* ------------------------ is_minio_export_enabled ---------------------- *)
is_minio_export_enabled_DefaultTrue(cfg) == Get(cfg, "enabled", TRUE)

\* lines 445-448, on the application's MINIO_EXPORT_CONFIG
is_minio_export_enabled(cfg) == Get(cfg, "enabled", FALSE)

\* The host asks whether the export is enabled; probe is the answer it got.
CheckEnabled ==
    /\ probe' = <<is_minio_export_enabled(appConfig)>>
    /\ UNCHANGED <<now, store, bucket, appConfig, job, mgr, sweep, cmd>>

(* ------------------------------ the system ----------------------------- *)
StartTime == 2

StoredObject(ct, t, has) ==
    [content_type |-> ct, data |-> <<Header, NL>>, entries |-> NoEntries,
     has_lm |-> has, lm |-> t]

\* Objects of earlier exports, one of each kind the sweep tells apart.
EdgeName == ExportName(1, <<"edge", CSV>>)
NoTimeName == ExportName(0, <<"dir">>)
OutsideName == [dir |-> "other/", ts |-> 0, file |-> <<"old", CSV>>]

InitialStore ==
    [n \in {EdgeName, NoTimeName, OutsideName} |->
        IF n = EdgeName THEN StoredObject("text/csv", 1, TRUE)
        ELSE IF n = NoTimeName THEN StoredObject("text/csv", 0, FALSE)
        ELSE StoredObject("text/csv", 0, TRUE)]

EmptyStore == [n \in {} |-> StoredObject("text/csv", 0, TRUE)]

AppConfigs ==
    { [enabled |-> TRUE, access_key |-> "key", secret_key |-> "secret",
       file_retention_seconds |-> 1] }

Init ==
    /\ now = StartTime
    /\ bucket = TRUE
    /\ store = InitialStore
    /\ appConfig \in AppConfigs
    /\ \E c \in Calls :
         job = [j \in Jobs |-> IF j = 1 THEN NewJob(c[1], c[2], c[3]) ELSE OffJob]
    /\ mgr = [j \in Jobs |-> NewManager]
    /\ sweep = NewSweep
    /\ cmd = [j \in Jobs |-> OffCommand]
    /\ probe = <<>>

JobStep(j) ==
    \/ Start(j)
    \/ ReadChunk(j)
    \/ ProcessLine(j)
    \/ FinalizeLast(j)
    \/ ZipGet(j)
    \/ ZipRemove(j)
    \/ ZipPut(j)

Next ==
    \/ \E j \in Jobs : JobStep(j)
    \/ SweepStart
    \/ SweepStep
    \/ Tick

Spec == Init /\ [][Next]_vars

(* ----------------- the manager under every configuration --------------- *)
\* MINIO_EXPORT_CONFIG as the host may set it: complete, with or without a
\* max_rows_per_file, disabled, without the enabled key, without an access key,
\* with an empty secret key.
GoodConfig ==
    [enabled |-> TRUE, access_key |-> "key", secret_key |-> "secret",
     file_retention_seconds |-> 1]

WithMaxRows(m) ==
    [enabled |-> TRUE, access_key |-> "key", secret_key |-> "secret",
     file_retention_seconds |-> 1, max_rows_per_file |-> m]

BadConfigs ==
    { [enabled |-> FALSE, access_key |-> "key", secret_key |-> "secret"],
      [access_key |-> "key", secret_key |-> "secret"],
      [enabled |-> TRUE, secret_key |-> "secret"],
      [enabled |-> TRUE, access_key |-> "key", secret_key |-> ""] }

\* A configuration and whether the bucket exists at the start.
HostSetups ==
    ({GoodConfig} \X BOOLEAN) \cup {<<WithMaxRows(MaxLimit), TRUE>>}
        \cup (BadConfigs \X BOOLEAN)

\* What runs on the host: a command's run() (no explicit limit) on each source,
\* or a direct call of stream_csv_to_minio with an explicit limit, under the
\* base names "a.csv" and "a.csv.csv".
CommandSources ==
    { Chunked(SourceLines(n), 2) : n \in {0, MaxRows} }
      \cup { <<<<MARK, COLON, SP, "boom">>>>, <<>> }

HostCalls ==
    [kind : {"command"}, source : CommandSources, filename : {<<"a", CSV>>},
     arg : {<<>>}]
      \cup [kind : {"direct"}, source : {Chunked(SourceLines(MaxRows), 2)},
            filename : {<<"a", CSV>>, <<"a", CSV, CSV>>}, arg : {<<MaxLimit>>}]

HostInit ==
    /\ now = StartTime
    /\ \E h \in HostSetups : appConfig = h[1] /\ bucket = h[2]
    /\ store = InitialStore
    /\ \E c \in HostCalls :
         /\ job = [j \in Jobs |->
                     IF j = 1 THEN NewJob(c.source, c.filename, c.arg) ELSE OffJob]
         /\ cmd = [j \in Jobs |->
                     IF j = 1 /\ c.kind = "command" THEN NewCommand ELSE OffCommand]
    /\ mgr = [j \in Jobs |-> NewManager]
    /\ sweep = NewSweep
    /\ probe = <<>>

HostNext ==
    \/ \E j \in Jobs : JobStep(j)
    \/ \E j \in Jobs : PresignUrl(j)
    \/ CheckEnabled
    \/ SweepStart
    \/ SweepStep
    \/ Tick

HostSpec == HostInit /\ [][HostNext]_vars

(* ------------------------ two exports at a time ------------------------ *)
\* Two calls of stream_csv_to_minio run side by side against the bucket, each
\* on its own manager (a command builds its own). The first exports the lines
\* H, r1, r2 under "a.csv", grouped into chunks in every way below; the second
\* exports other rows under "a.csv" or "b.csv".
PairLines == SourceLines(2)

OtherLines == <<Header, Row(5), Row(6)>>

BlankChunk == <<SP, NL, NL>>

\* One chunk holding every line, the last without its "\n"
Unterminated(ls) == <<SubSeq(JoinLines(ls), 1, Len(JoinLines(ls)) - 1)>>

\* Blank lines and blank chunks between the lines
WithBlanks(ls) ==
    <<BlankChunk>> \o [i \in 1..Len(ls) |-> <<SP, NL>> \o ls[i] \o <<NL, NL>>]
        \o <<BlankChunk>>

\* The same lines as the generator may group them
Regrouped(ls) ==
    { Chunked(ls, 1), Chunked(ls, Len(ls)), Unterminated(ls), WithBlanks(ls) }

PairCalls ==
    (Regrouped(PairLines) \X {<<"a", CSV>>} \X LimitArgs)
      \X ({Chunked(OtherLines, 3)} \X {<<"a", CSV>>, <<"b", CSV>>} \X {<<1>>})

PairInit ==
    /\ now = StartTime
    /\ bucket = TRUE
    /\ store = EmptyStore
    /\ appConfig = GoodConfig
    /\ \E c \in PairCalls :
         job = [j \in Jobs |-> NewJob(c[j][1], c[j][2], c[j][3])]
    /\ mgr = [j \in Jobs |-> NewManager]
    /\ sweep = NewSweep
    /\ cmd = [j \in Jobs |-> OffCommand]
    /\ probe = <<>>

PairNext ==
    \/ \E j \in Jobs : JobStep(j)
    \/ Tick

PairSpec == PairInit /\ [][PairNext]_vars

\* Each call runs in its own worker and every store call returns or fails: a
\* job that can step does step. The pairs: the first export in one chunk, as
\* one file or split, next to the second.
FairCalls ==
    { c \in PairCalls :
        c[1][1] = Chunked(PairLines, Len(PairLines)) /\ c[1][3] \in {<<1>>, <<MaxLimit>>} }

FairInit ==
    /\ now = StartTime
    /\ bucket = TRUE
    /\ store = EmptyStore
    /\ appConfig = GoodConfig
    /\ \E c \in FairCalls :
         job = [j \in Jobs |-> NewJob(c[j][1], c[j][2], c[j][3])]
    /\ mgr = [j \in Jobs |-> NewManager]
    /\ sweep = NewSweep
    /\ cmd = [j \in Jobs |-> OffCommand]
    /\ probe = <<>>

FairPairSpec ==
    FairInit /\ [][PairNext]_vars /\ \A j \in Jobs : WF_vars(JobStep(j))

(* ======================================================================= *)
(* What the claims speak of, read off the source text and the stored bytes  *)
(* independently of the job's own counters.                                 *)
(* ======================================================================= *)
RECURSIVE Flatten(_)
Flatten(chunks) == IF chunks = <<>> THEN <<>> ELSE Head(chunks) \o Flatten(Tail(chunks))

RECURSIVE NonBlank(_)
NonBlank(ls) ==
    IF ls = <<>> THEN <<>>
    ELSE IF \A i \in 1..Len(Head(ls)) : Head(ls)[i] = SP THEN NonBlank(Tail(ls))
    ELSE <<Head(ls)>> \o NonBlank(Tail(ls))

\* The non-blank lines of a text
TextLines(text) == NonBlank(Split(text, NL))

MarkerFree(src) == \A i \in 1..Len(src) : ~HasMarker(src[i])

\* The header and the data rows of a whole source
SourceText(src) == TextLines(Flatten(src))
HasHeader(src) == SourceText(src) # <<>>
DataRows(src) == Tail(SourceText(src))

\* The data rows of a stored CSV file: its lines after the first
FileRows(data) == Tail(TextLines(data))

CeilDiv(n, m) == (n + m - 1) \div m

Running(jr) == jr.pc \notin {"off", "new"}
PastSplitting(jr) == jr.pc \in {"zip_get", "zip_remove", "zip_put", "done"}

\* The puts of CSV segments among a job's store calls
IsSegmentPut(o) == o.op = "put" /\ o.sent.entries = NoEntries
IsArchivePut(o) == o.op = "put" /\ o.sent.entries # NoEntries
SegmentPuts(jr) == SelectSeq(jr.ops, IsSegmentPut)
OkOps(jr, kind) == SelectSeq(jr.ops, LAMBDA o : o.op = kind /\ o.ok)

\* A source of a header and n >= 1 data rows, no error marker
Exportable(src) == MarkerFree(src) /\ HasHeader(src) /\ Len(DataRows(src)) >= 1

(* C1: for a header followed by n >= 1 data rows (no marker) and a limit     *)
(* m >= 1, exactly ceil(n / m) segments are uploaded before consolidation    *)
(* and the returned file_count is ceil(n / m).                               *)
C1_SegmentCount ==
    \A j \in Jobs :
        LET jr == job[j]
            n == Len(DataRows(jr.source))
            m == jr.max_rows_per_file
        IN (PastSplitting(jr) /\ Exportable(jr.source) /\ m >= 1) =>
             /\ Len(jr.uploaded_files) = CeilDiv(n, m)
             /\ Len(SegmentPuts(jr)) = CeilDiv(n, m)
             /\ \A i \in 1..Len(SegmentPuts(jr)) : SegmentPuts(jr)[i].ok
             /\ jr.pc = "done" => jr.result.file_count = CeilDiv(n, m)

C1_Witness ==
    \E j \in Jobs :
        /\ job[j].pc = "done"
        /\ Len(DataRows(job[j].source)) = 3
        /\ job[j].max_rows_per_file = 2
        /\ job[j].result.file_count = 2

(* C2: every segment ever uploaded starts with the job's header, verbatim,   *)
(* and holds at most m data rows; the in-memory row counter never exceeds m. *)
C2_SegmentShape ==
    \A j \in Jobs :
        LET jr == job[j]
            puts == SegmentPuts(jr)
        IN
        (Running(jr) /\ jr.max_rows_per_file >= 1) =>
            /\ jr.current_file_rows <= jr.max_rows_per_file
            /\ puts # <<>> =>
                 LET header == Head(SourceText(jr.source)) IN
                 \A i \in 1..Len(puts) :
                     LET all == Split(puts[i].sent.data, NL)
                         lines == NonBlank(all)
                     IN
                     /\ lines # <<>>
                     /\ Head(lines) = header
                     /\ Head(all) = header
                     /\ Len(Tail(lines)) <= jr.max_rows_per_file

C2_Witness ==
    \E j \in Jobs :
        /\ job[j].max_rows_per_file = 2
        /\ Len(SegmentPuts(job[j])) = 2
        /\ Len(FileRows(SegmentPuts(job[j])[1].sent.data)) = 2
        /\ Len(FileRows(SegmentPuts(job[j])[2].sent.data)) = 1

\* The step on which job j returns
Returns(j) == job[j].pc # "done" /\ job'[j].pc = "done"

\* The names a job put objects under: its segments and its archive
JobNames(jr) == { jr.uploaded_files[i] : i \in 1..Len(jr.uploaded_files) }
                    \cup { ZipObjectName(jr) }

IsArchive(o) == o.entries # NoEntries

\* C3, in the state stream_csv_to_minio returns in
OnlyTheArchive(jr) ==
    /\ jr.result.object_name = ZipObjectName(jr)
    /\ jr.result.object_name \in DOMAIN store
    /\ IsArchive(store[jr.result.object_name])
    /\ store[jr.result.object_name].content_type = "application/zip"
    /\ \A n \in JobNames(jr) \cap DOMAIN store :
         n = jr.result.object_name /\ IsArchive(store[n])
    /\ Len(OkOps(jr, "put")) = Len(jr.uploaded_files) + 1

(* C3: when more than one segment was produced and no store call failed,     *)
(* then at the moment of return the store holds exactly one archive object   *)
(* of the job and none of its segment objects, and object_name is the        *)
(* archive.                                                                  *)
C3_OnlyArchiveAtReturn ==
    [][\A j \in Jobs :
         (Returns(j) /\ Len(job'[j].uploaded_files) > 1) => OnlyTheArchive(job[j])']_vars

C3_Witness ==
    \E j \in Jobs :
        /\ job[j].pc = "done"
        /\ Len(job[j].uploaded_files) = 3
        /\ job[j].result.object_name \in DOMAIN store

C3_WitnessSameName ==
    \E j \in Jobs :
        /\ job[j].pc = "done"
        /\ Len(job[j].uploaded_files) = 2
        /\ job[j].result.object_name = job[j].uploaded_files[1]

\* C4, in the state stream_csv_to_minio returns in
OnlyTheCsv(jr) ==
    /\ jr.result.object_name = jr.uploaded_files[1]
    /\ jr.result.object_name = ExportName(jr.timestamp, jr.filename)
    /\ jr.result.object_name \in DOMAIN store
    /\ ~IsArchive(store[jr.result.object_name])
    /\ store[jr.result.object_name].data = jr.ops[1].sent.data
    /\ JobNames(jr) \cap DOMAIN store = {jr.result.object_name}
    /\ Len(jr.ops) = 1
    /\ \A i \in 1..Len(jr.ops) : jr.ops[i].op = "put" /\ IsSegmentPut(jr.ops[i])

(* C4: when exactly one segment was produced, the returned object_name is    *)
(* that CSV object, the store holds exactly one export object of the job, no *)
(* archive is ever created and the job issues no get and no remove.          *)
C4_SingleCsvAtReturn ==
    [][\A j \in Jobs :
         /\ (Returns(j) /\ Len(job'[j].uploaded_files) = 1) => OnlyTheCsv(job[j])'
         /\ (job[j].pc = "done" /\ Len(job[j].uploaded_files) = 1) =>
                job'[j].ops = job[j].ops]_vars

C4_Witness ==
    \E j \in Jobs :
        /\ job[j].pc = "done"
        /\ Len(job[j].uploaded_files) = 1
        /\ job[j].total_rows = 2
        /\ job[j].result.object_name \in DOMAIN store

RECURSIVE EntryRows(_)
\* The data rows of the archive's entries, in entry order, headers dropped
EntryRows(entries) ==
    IF entries = <<>> THEN <<>>
    ELSE FileRows(Head(entries).bytes.data) \o EntryRows(Tail(entries))

\* C5, in the state stream_csv_to_minio returns in: the archive against the source
RoundTrip(jr, archive) ==
    LET entries == archive.entries
        text == SourceText(jr.source)
    IN
    /\ Len(entries) = jr.result.file_count
    /\ \A i \in 1..Len(entries) :
         /\ entries[i].name = BareName(jr.uploaded_files[i])
         /\ Head(TextLines(entries[i].bytes.data)) = Head(text)
    /\ EntryRows(entries) = Tail(text)
    /\ jr.result.total_rows = Len(Tail(text))

(* C5: round trip: the archive of a multi-segment export that completed      *)
(* holds file_count entries in segment order, and the data rows of the       *)
(* entries, concatenated in that order without their headers, are the        *)
(* source's data rows in order, none lost or duplicated; total_rows is their *)
(* number.                                                                   *)
C5_RoundTrip ==
    [][\A j \in Jobs :
         (Returns(j) /\ Len(job'[j].uploaded_files) > 1) =>
             /\ job'[j].result.object_name \in DOMAIN store'
             /\ RoundTrip(job'[j], store'[job'[j].result.object_name])]_vars

C5_Witness ==
    \E j \in Jobs :
        /\ job[j].pc = "done"
        /\ job[j].result.file_count = 2
        /\ job[j].result.total_rows = 3
        /\ job[j].result.object_name \in DOMAIN store
        /\ Len(store[job[j].result.object_name].entries) = 2

HeaderOnly(src) == MarkerFree(src) /\ HasHeader(src) /\ DataRows(src) = <<>>

(* C6: a source of a header line and no data rows fails with the             *)
(* "No data to export" error and creates no object in the store.             *)
C6_HeaderOnlyFails ==
    \A j \in Jobs :
        HeaderOnly(job[j].source) =>
            /\ job[j].pc # "done"
            /\ OkOps(job[j], "put") = <<>>
            /\ job[j].pc = "failed" => job[j].err = "ValueError: No data to export"

\* A chunk that holds the marker followed by ": <message>"
FirstIndex(c, t, from) == CHOOSE i \in from..Len(c) :
                              c[i] = t /\ \A k \in from..(i - 1) : c[k] # t
IsMarkerChunk(c) ==
    \E i \in 1..Len(c) : c[i] = MARK /\ \E k \in (i + 1)..Len(c) : c[k] = COLON

\* <message>: what follows the marker's colon, without the blanks around it
MessageOf(c) ==
    LET i == FirstIndex(c, MARK, 1)
        k == FirstIndex(c, COLON, i + 1)
    IN Strip(SubSeq(c, k + 1, Len(c)))

Carries(text, msg) ==
    msg # <<>> /\ \E i \in 1..Len(text) : SubSeq(text, i, Len(text)) = msg

\* The chunk a job read last
LastChunk(jr) == jr.source[Len(jr.source) - Len(jr.gen)]

AbortedByMarker(jr) ==
    /\ jr.pc = "failed"
    /\ Len(jr.gen) < Len(jr.source)
    /\ IsMarkerChunk(LastChunk(jr))

RowSet(rows) == { rows[i] : i \in 1..Len(rows) }

\* C7, in every state after the abort
AbortedCleanly(jr) ==
    /\ jr.err = "ValueError"
    /\ Carries(jr.errmsg, MessageOf(LastChunk(jr)))
    /\ Len(jr.ops) = Len(jr.uploaded_files)
    /\ \A i \in 1..Len(jr.ops) :
         /\ jr.ops[i].ok /\ IsSegmentPut(jr.ops[i])
         /\ jr.ops[i].name = jr.uploaded_files[i]
         /\ jr.ops[i].name \in DOMAIN store =>
                store[jr.ops[i].name].data = jr.ops[i].sent.data
         /\ RowSet(FileRows(jr.ops[i].sent.data))
              \cap (RowSet(FileRows(jr.buf)) \cup RowSet(TextLines(LastChunk(jr)))) = {}
    /\ \A n \in JobNames(jr) \cap DOMAIN store : ~IsArchive(store[n])

(* C7: a chunk holding the marker followed by ": <message>" aborts the job   *)
(* with an error carrying <message>; the abort and everything after it       *)
(* issue no store call, the segments uploaded before stay as uploaded, the   *)
(* rows in the buffer and in the marker's chunk are never uploaded and no    *)
(* archive is created.                                                       *)
C7_MarkerAborts ==
    [][\A j \in Jobs :
         /\ ( /\ job[j].pc = "read" /\ job[j].gen # <<>>
              /\ IsMarkerChunk(Head(job[j].gen))
              /\ job'[j] # job[j] )
              => /\ AbortedByMarker(job[j])'
                 /\ store' = store
                 /\ job'[j].ops = job[j].ops
                 /\ job'[j].uploaded_files = job[j].uploaded_files
         /\ AbortedByMarker(job[j])' => AbortedCleanly(job[j])'
         /\ AbortedByMarker(job[j]) => job'[j] = job[j]]_vars

C7_Witness ==
    \E j \in Jobs :
        /\ AbortedByMarker(job[j])
        /\ Len(job[j].uploaded_files) = 1
        /\ job[j].uploaded_files[1] \in DOMAIN store
        /\ job[j].current_file_rows = 1
        /\ job[j].errmsg # MessageOf(LastChunk(job[j]))

ConsolidationFailed(jr) ==
    /\ jr.pc = "failed"
    /\ jr.ops # <<>>
    /\ ~jr.ops[Len(jr.ops)].ok
    /\ \/ jr.ops[Len(jr.ops)].op \in {"get", "remove"}
       \/ IsArchivePut(jr.ops[Len(jr.ops)])

(* C8, as claimed: when a multi-segment export fails during consolidation,   *)
(* the job's segment objects are left in the store (so that every exported   *)
(* row is still retrievable): each is there unless a sweep removed it.       *)
C8_SegmentsLeft ==
    \A j \in Jobs :
        ConsolidationFailed(job[j]) =>
            \A i \in 1..Len(job[j].uploaded_files) :
                \/ job[j].uploaded_files[i] \in DOMAIN store
                \/ job[j].uploaded_files[i] \in sweep.removed

(* C8, amended: when a multi-segment export fails during consolidation, no   *)
(* archive is stored; the k segments the job removed before the failing step *)
(* are the first k of its list and are gone from the store, and the job has  *)
(* issued no remove on the segments after them, which stay as uploaded.      *)
C8_OnlyLaterSegmentsLeft ==
    \A j \in Jobs :
        LET jr == job[j]
            removes == OkOps(jr, "remove")
            k == Len(removes)
        IN ConsolidationFailed(jr) =>
             /\ k <= Len(jr.uploaded_files)
             /\ \A i \in 1..k :
                  /\ removes[i].name = jr.uploaded_files[i]
                  /\ jr.uploaded_files[i] \notin DOMAIN store
             /\ \A i \in (k + 1)..Len(jr.uploaded_files) :
                  jr.uploaded_files[i] \in DOMAIN store =>
                      store[jr.uploaded_files[i]].data = jr.ops[i].sent.data
             /\ \A n \in JobNames(jr) \cap DOMAIN store : ~IsArchive(store[n])
             /\ \A i \in 1..Len(jr.ops) : IsArchivePut(jr.ops[i]) => ~jr.ops[i].ok

C8_Witness ==
    \E j \in Jobs :
        /\ ConsolidationFailed(job[j])
        /\ Len(OkOps(job[j], "remove")) = 1
        /\ Len(job[j].uploaded_files) = 2
        /\ job[j].uploaded_files[2] \in DOMAIN store

\* The segments of a job in progress that the job itself has not removed yet
LiveSegments(jr) ==
    IF jr.pc \in {"read", "lines"}
    THEN { jr.uploaded_files[i] : i \in 1..Len(jr.uploaded_files) }
    ELSE IF jr.pc \in {"zip_get", "zip_remove"}
    THEN { jr.uploaded_files[i] : i \in jr.zi..Len(jr.uploaded_files) }
    ELSE {}

(* C9: with a positive retention, no sweep ever removes a segment of a job   *)
(* still in progress: every segment such a job uploaded and has not removed  *)
(* itself is in the store.                                                   *)
C9_NoLiveSegmentSwept ==
    \A j \in Jobs :
        /\ Get(appConfig, "file_retention_seconds", DefaultRetentionSeconds) > 0
        /\ LiveSegments(job[j]) \subseteq DOMAIN store
        /\ LiveSegments(job[j]) \cap sweep.removed = {}

\* The objects of the run's listing older than the cutoff taken at its start
OlderThanCutoff(sw) ==
    { sw.listed[i].object_name : i \in
        { i \in 1..Len(sw.listed) :
            /\ sw.listed[i].has_lm
            /\ sw.listed[i].last_modified <
                 sw.started - Get(appConfig, "file_retention_seconds",
                                  DefaultRetentionSeconds) } }

(* C10: a cleanup_old_files run in which no store call fails removes exactly *)
(* the objects under exports/ whose last-modified time is strictly older     *)
(* than now - file_retention_seconds as of its start, leaves every other     *)
(* object (at or after the cutoff, without a time, outside the prefix) and   *)
(* returns the number removed.                                               *)
C10_SweepRemovesExactlyExpired ==
    [][/\ (sweep.pc # "loop" /\ sweep'.pc \in {"loop", "done"} /\ sweep' # sweep) =>
             { sweep'.listed[i].object_name : i \in 1..Len(sweep'.listed) }
                 = { n \in DOMAIN store : n.dir = "exports/" }
       /\ sweep' # sweep =>
             /\ (DOMAIN store \ DOMAIN store') \subseteq OlderThanCutoff(sweep')
             /\ \A n \in DOMAIN store \cap DOMAIN store' : store'[n] = store[n]
             /\ DOMAIN store' \subseteq DOMAIN store
             /\ (sweep'.removed \ sweep.removed) \cap DOMAIN store' = {}
       /\ (sweep' # sweep /\ sweep'.pc = "done") =>
             /\ sweep'.removed = OlderThanCutoff(sweep')
             /\ sweep'.returned = Cardinality(OlderThanCutoff(sweep'))]_vars

C10_Witness ==
    /\ sweep.pc = "done"
    /\ sweep.returned = 2
    /\ EdgeName \in sweep.removed
    /\ \E i \in 1..Len(sweep.listed) :
         /\ sweep.listed[i].has_lm
         /\ sweep.listed[i].last_modified = sweep.cutoff_time
         /\ sweep.listed[i].object_name \in DOMAIN store
    /\ {NoTimeName, OutsideName} \subseteq DOMAIN store

(* ======================================================================= *)
(* The manager, the commands and the host configuration (HostSpec)         *)
(* ======================================================================= *)
\* The limit the host configured (the default when it configured none)
ConfiguredLimit == Get(appConfig, "max_rows_per_file", DefaultMaxRowsPerFile)

\* Job j belongs to a command's run()
ByCommand(j) == cmd[j].pc # "off"

(* C11: an export started through a command splits at the configured         *)
(* max_rows_per_file: with configured limit m and n >= 1 data rows it        *)
(* uploads ceil(n / m) segments.                                             *)
C11_CommandSplitsAtConfiguredLimit ==
    \A j \in Jobs :
        LET jr == job[j]
            n == Len(DataRows(jr.source))
        IN (ByCommand(j) /\ PastSplitting(jr) /\ Exportable(jr.source)) =>
             /\ Len(SegmentPuts(jr)) = CeilDiv(n, ConfiguredLimit)
             /\ jr.max_rows_per_file = ConfiguredLimit

(* C12: get_max_rows_per_file returns the application's max_rows_per_file    *)
(* (1000000 when it has none) in every state of every manager, also before   *)
(* any client initialization.                                                *)
C12_MaxRowsFromAppConfig ==
    /\ \A j \in Jobs : get_max_rows_per_file(mgr[j]) = ConfiguredLimit
    /\ get_max_rows_per_file(sweep.mgr) = ConfiguredLimit

\* The configuration lets no client be built: disabled, or a key missing or empty
Disabled(cfg) == "enabled" \notin DOMAIN cfg \/ cfg.enabled # TRUE
Keyless(cfg) ==
    \/ "access_key" \notin DOMAIN cfg \/ "secret_key" \notin DOMAIN cfg
    \/ cfg.access_key = "" \/ cfg.secret_key = ""
Unusable(cfg) == Disabled(cfg) \/ Keyless(cfg)

ConfigurationError(cfg) ==
    IF Disabled(cfg) THEN "ValueError: not enabled" ELSE "ValueError: credentials"

Managers == { mgr[j] : j \in Jobs } \cup { sweep.mgr }

\* C13, of a state: nothing was built, nothing was called, and what ended
\* ended on the configuration error
NothingButConfigurationErrors(cfg, jobs, mgrs, sw, cmds) ==
    /\ \A m \in mgrs : ~m.client /\ m.calls = <<>>
    /\ \A j \in Jobs :
         /\ jobs[j].ops = <<>>
         /\ jobs[j].uploaded_files = <<>>
         /\ jobs[j].pc # "done"
         /\ cmds[j].download_url = NoUrl
         /\ (jobs[j].pc = "failed" /\ jobs[j].header # <<>>
                 /\ MarkerFree(jobs[j].source)) =>
                jobs[j].err = ConfigurationError(cfg)
    /\ sw.listed = <<>> /\ sw.attempted = {}
    /\ sw.pc \in {"idle", "failed"}
    /\ sw.pc = "failed" => sw.err = ConfigurationError(cfg)

(* C13: with the feature disabled or a credential missing or empty, every    *)
(* operation that reaches the store's client fails with the configuration    *)
(* error before any store call: no client is built or cached, no bucket or   *)
(* object call is issued, and the store and the bucket stay as they were.    *)
C13_BadConfigFailsFast ==
    [][Unusable(appConfig) =>
         /\ store' = store
         /\ bucket' = bucket
         /\ NothingButConfigurationErrors(appConfig', job', { mgr'[j] : j \in Jobs }
                                              \cup { sweep'.mgr }, sweep', cmd')]_vars

C13_Witness ==
    /\ Keyless(appConfig) /\ ~Disabled(appConfig)
    /\ "access_key" \in DOMAIN appConfig
    /\ \E j \in Jobs : job[j].pc = "failed" /\ job[j].err = "ValueError: credentials"
    /\ sweep.pc = "failed" /\ sweep.err = "ValueError: credentials"

C13_WitnessDisabled ==
    /\ "enabled" \in DOMAIN appConfig
    /\ \E j \in Jobs : job[j].pc = "failed" /\ job[j].err = "ValueError: not enabled"
    /\ sweep.pc = "failed" /\ sweep.err = "ValueError: not enabled"

Count(calls, S) == Len(SelectSeq(calls, LAMBDA c : c \in S))
BucketChecks == {"bucket_exists: present", "bucket_exists: absent", "bucket_exists: error"}

(* C14: a manager builds its client at most once and reuses it, checks for   *)
(* the bucket at most once, right after building the client, and calls       *)
(* make_bucket exactly when that check reported the bucket absent.           *)
C14_BootstrapOnce ==
    \A m \in Managers :
        /\ Count(m.calls, {"Minio"}) <= 1
        /\ m.client <=> Count(m.calls, {"Minio"}) = 1
        /\ Count(m.calls, BucketChecks) <= 1
        /\ Count(m.calls, BucketChecks) = 1 => m.calls[1] = "Minio" /\ m.calls[2] \in BucketChecks
        /\ Count(m.calls, {"make_bucket", "make_bucket: error"})
             = Count(m.calls, {"bucket_exists: absent"})
        /\ "make_bucket" \in { m.calls[i] : i \in 1..Len(m.calls) } => bucket

C14_Witness ==
    \E j \in Jobs :
        /\ mgr[j].calls = <<"Minio", "bucket_exists: absent", "make_bucket">>
        /\ Len(OkOps(job[j], "put")) = 3
        /\ cmd[j].pc = "off"
        /\ job[j].pc = "done"

C14_WitnessPresent ==
    \E j \in Jobs :
        /\ mgr[j].calls = <<"Minio", "bucket_exists: present">>
        /\ cmd[j].pc = "returned"

\* The step on which command j gets its link
GetsUrl(j) == cmd'[j].download_url # cmd[j].download_url

\* C15, of the step: the job had returned, the link is for the object it
\* returned, whose put was the job's last store call and succeeded, and the
\* object is in the store unless a sweep found it older than the cutoff.
UrlAfterUpload(jr, url, st, sw, cfg, t) ==
    /\ jr.pc = "done"
    /\ Len(url) = 1
    /\ url[1].object_name = jr.result.object_name
    /\ url[1].expires = ExpirySeconds
    /\ jr.ops # <<>>
    /\ LET last == jr.ops[Len(jr.ops)] IN
       last.op = "put" /\ last.ok /\ last.name = jr.result.object_name
    /\ \/ jr.result.object_name \in DOMAIN st
       \/ /\ sw.runs > 0
          /\ jr.timestamp < t - Get(cfg, "file_retention_seconds", DefaultRetentionSeconds)

(* C15: a command asks for the download link only after stream_csv_to_minio  *)
(* returned, and for the object it returned, whose upload has completed and  *)
(* which is in the store then (unless a sweep removed it); a command whose   *)
(* streaming step failed never gets a link.                                  *)
C15_UrlOnlyAfterUpload ==
    [][\A j \in Jobs :
         /\ GetsUrl(j) =>
              UrlAfterUpload(job[j], cmd'[j].download_url, store, sweep, appConfig, now)
         /\ job[j].pc # "done" =>
              cmd'[j].download_url = NoUrl /\ cmd'[j].pc \notin {"returned"}
         /\ cmd'[j].pc = "returned" =>
              /\ cmd'[j].download_url # NoUrl
              /\ cmd'[j].returned[1].object_name = job[j].result.object_name
              /\ cmd'[j].returned[1].download_url = cmd'[j].download_url]_vars

C15_Witness ==
    \E j \in Jobs :
        /\ cmd[j].pc = "returned"
        /\ cmd[j].download_url[1].object_name = job[j].result.object_name
        /\ job[j].result.object_name \in DOMAIN store
        /\ job[j].result.total_rows = 3

\* The link is about to be asked for an object a sweep has removed
C15_WitnessSwept ==
    \E j \in Jobs :
        /\ cmd[j].pc = "stream" /\ job[j].pc = "done"
        /\ job[j].result.object_name \notin DOMAIN store

(* C16: in a sweep, a failure removing one expired object does not prevent   *)
(* removal attempts on the other expired objects of the listing: when the    *)
(* sweep has ended, remove_object was called on every listed object older    *)
(* than the cutoff.                                                          *)
C16_EveryExpiredAttempted ==
    (sweep.pc \in {"done", "failed"}) =>
        \A i \in 1..Len(sweep.listed) :
            Expired(sweep.listed[i], sweep.cutoff_time) =>
                sweep.listed[i].object_name \in sweep.attempted

\* What the question must answer under configuration cfg
EnabledIs(cfg) == "enabled" \in DOMAIN cfg /\ cfg.enabled = TRUE

(* C17: is_minio_export_enabled returns True exactly when the application's  *)
(* MINIO_EXPORT_CONFIG has enabled set to True, False when it is False or    *)
(* absent, and changes no state.                                             *)
C17_EnabledFlag ==
    [][probe' # probe =>
         /\ probe' = <<EnabledIs(appConfig)>>
         /\ UNCHANGED <<now, store, bucket, appConfig, job, mgr, sweep, cmd>>]_vars

C17_Witness ==
    /\ probe = <<FALSE>>
    /\ "enabled" \notin DOMAIN appConfig

C17_WitnessEnabled ==
    /\ probe = <<TRUE>>
    /\ \E j \in Jobs : mgr[j].client

(* ======================================================================= *)
(* Order of the uploads and of the consolidation (Spec)                    *)
(* ======================================================================= *)
RECURSIVE RowsSent(_)
\* The number of data rows in a sequence of puts
RowsSent(puts) ==
    IF puts = <<>> THEN 0
    ELSE Len(FileRows(Head(puts).sent.data)) + RowsSent(Tail(puts))

\* C18 for one job on a source of a header and n >= 1 data rows, m its limit
InProductionOrder(jr) ==
    LET puts == SegmentPuts(jr)
        rows == DataRows(jr.source)
        n == Len(rows)
        m == jr.max_rows_per_file
    IN
    /\ \A i \in 1..Len(puts) :
         LET sent == FileRows(puts[i].sent.data) IN
         /\ sent = SubSeq(rows, (i - 1) * m + 1, Min(i * m, n))
         /\ sent # <<>>
         /\ i < Len(puts) => puts[i].ok /\ Len(sent) = m
         /\ puts[i].ok => jr.uploaded_files[i] = puts[i].name
    \* the rows taken from the source so far are those sent plus those in the
    \* buffer: none was buffered while an upload was still to complete
    /\ jr.total_rows <= n
    /\ LET sent == RowsSent(puts) IN
       IF puts # <<>> /\ ~puts[Len(puts)].ok
       THEN jr.pc = "failed" /\ jr.total_rows = sent
       ELSE /\ jr.total_rows = sent + jr.current_file_rows
            /\ jr.current_file_rows > 0 =>
                 FileRows(jr.buf) = SubSeq(rows, sent + 1, jr.total_rows)

(* C18: segments are uploaded in production order and rows never span or     *)
(* repeat across segments: the i-th uploaded segment holds exactly the data  *)
(* rows (i-1)*m+1 .. min(i*m, n), every segment but the last has m rows,     *)
(* none has zero, and a row is buffered only after the upload before it      *)
(* completed.                                                                *)
C18_ProductionOrder ==
    [][\A j \in Jobs :
         (job'[j] # job[j] /\ job[j].max_rows_per_file >= 1
             /\ job[j].header # <<>> /\ Exportable(job[j].source)) =>
            /\ InProductionOrder(job'[j])
            \* a step buffers one row at most, and only after its upload, if it
            \* made one, succeeded
            /\ job'[j].total_rows \in {job[j].total_rows, job[j].total_rows + 1}
            /\ Len(job'[j].ops) <= Len(job[j].ops) + 1
            /\ (job'[j].total_rows > job[j].total_rows
                    /\ Len(job'[j].ops) > Len(job[j].ops)) =>
                   /\ job'[j].ops[Len(job'[j].ops)].ok
                   /\ job'[j].current_file_rows = 1]_vars

C18_Witness ==
    \E j \in Jobs :
        /\ job[j].pc = "done"
        /\ job[j].max_rows_per_file = 1
        /\ Len(SegmentPuts(job[j])) = 3
        /\ FileRows(SegmentPuts(job[j])[3].sent.data) = <<Row(3)>>

C18_WitnessFailedUpload ==
    \E j \in Jobs :
        /\ job[j].pc = "failed"
        /\ Len(SegmentPuts(job[j])) = 2
        /\ ~SegmentPuts(job[j])[2].ok
        /\ job[j].total_rows = 2

\* C19 for one job past its splitting: the store calls of the consolidation
Consolidation(jr) == SelectSeq(jr.ops, LAMBDA o : ~IsSegmentPut(o))

ReadThenRemoved(jr) ==
    LET z == Consolidation(jr)
        k == Len(jr.uploaded_files)
    IN
    /\ Len(z) <= 2 * k + 1
    \* the consolidation starts after the last segment's upload
    /\ z # <<>> =>
          /\ Len(SegmentPuts(jr)) = k
          /\ \A p \in 1..Len(jr.ops) : IsSegmentPut(jr.ops[p]) <=> p <= k
    /\ \A p \in 1..Len(z) :
         /\ p < Len(z) => z[p].ok
         /\ (p <= 2 * k /\ p % 2 = 1) =>
                z[p].op = "get" /\ z[p].name = jr.uploaded_files[(p + 1) \div 2]
         /\ (p <= 2 * k /\ p % 2 = 0) =>
                /\ z[p].op = "remove" /\ z[p].name = jr.uploaded_files[p \div 2]
                /\ z[p - 1].op = "get" /\ z[p - 1].ok /\ z[p - 1].name = z[p].name
                /\ Len(jr.zip_entries) >= p \div 2
         /\ p = 2 * k + 1 =>
                /\ IsArchivePut(z[p]) /\ z[p].name = ZipObjectName(jr)
                /\ z[p].sent.entries = jr.zip_entries
                /\ Len(jr.zip_entries) = k
    \* what was read is what is written into the archive, in list order
    /\ Len(jr.zip_entries) = Len(SelectSeq(z, LAMBDA o : o.op = "get" /\ o.ok))
    /\ \A i \in 1..Len(jr.zip_entries) :
         /\ jr.zip_entries[i].name = BareName(jr.uploaded_files[i])
         /\ jr.zip_entries[i].bytes.data = SegmentPuts(jr)[i].sent.data

(* C19: in the consolidation a segment is removed only after its bytes were  *)
(* read and written into the archive buffer, the segments are taken one      *)
(* after another in list order, and the archive is uploaded only after every *)
(* segment was written and removed.                                          *)
C19_ReadBeforeRemove ==
    \A j \in Jobs :
        LET jr == job[j] IN
        (Len(jr.uploaded_files) > 1
            /\ (PastSplitting(jr) \/ (jr.pc = "failed" /\ Consolidation(jr) # <<>>))) =>
            ReadThenRemoved(jr)

C19_Witness ==
    \E j \in Jobs :
        /\ job[j].pc = "done"
        /\ Len(job[j].uploaded_files) = 3
        /\ Len(Consolidation(job[j])) = 7
        /\ Len(job[j].zip_entries) = 3

\* <base> of a file name <base>.csv
BaseOf(filename) == SubSeq(filename, 1, Len(filename) - 1)

\* C20 for one job: the names the claim gives its segments and its archive
NamedByScheme(jr) ==
    LET base == BaseOf(jr.filename)
        Segment(k) ==
            ExportName(jr.timestamp,
                       IF k = 1 THEN base \o <<CSV>>
                       ELSE base \o <<"_", IndexStr(k), CSV>>)
        Archive == ExportName(jr.timestamp, base \o <<ZIP>>)
        names == { jr.ops[p].name : p \in { q \in 1..Len(jr.ops) : jr.ops[q].op = "put" } }
    IN
    /\ \A p \in 1..Len(jr.ops) :
         jr.ops[p].op = "put" =>
            IF IsSegmentPut(jr.ops[p]) THEN jr.ops[p].name = Segment(p)
            ELSE jr.ops[p].name = Archive
    \* pairwise distinct: as many names as puts
    /\ Cardinality(names) = Len(SelectSeq(jr.ops, LAMBDA o : o.op = "put"))

(* C20: all object names of a job carry the one timestamp token taken at     *)
(* its start; for a base filename <base>.csv the first segment is            *)
(* exports/<ts>_<base>.csv, the k-th (k >= 2) exports/<ts>_<base>_<k>.csv    *)
(* and the archive exports/<ts>_<base>.zip, pairwise distinct.               *)
C20_NamingScheme ==
    \A j \in Jobs :
        LET jr == job[j] IN
        (Running(jr) /\ EndsWith(jr.filename, CSV)) => NamedByScheme(jr)

(* ======================================================================= *)
(* Failures, interference and termination                                   *)
(* ======================================================================= *)
\* A source without any non-blank line: no chunk, or blank lines only
NoLines(src) == MarkerFree(src) /\ SourceText(src) = <<>>

\* C21, of a job and its manager: nothing was built, called or written
NothingIssued(jr, m) ==
    /\ jr.ops = <<>>
    /\ jr.uploaded_files = <<>>
    /\ ~m.client
    /\ m.calls = <<>>
    /\ jr.pc \in {"new", "read", "lines", "failed"}
    /\ jr.pc = "failed" => jr.err = "ValueError: No data to export"

C21_WitnessNoChunk ==
    \E j \in Jobs :
        /\ job[j].source = <<>>
        /\ job[j].pc = "failed"
        /\ job[j].err = "ValueError: No data to export"

\* The store calls a manager's bootstrap saw fail
BootstrapFailed(m) ==
    \E i \in 1..Len(m.calls) : m.calls[i] \in {"bucket_exists: error", "make_bucket: error"}

\* C22 for one job: no object is put, read or removed twice, and a failed
\* store call is the job's last
NeverRetried(jr, m) ==
    /\ \A p, q \in 1..Len(jr.ops) :
         (p < q /\ jr.ops[p].op = jr.ops[q].op) => jr.ops[p].name # jr.ops[q].name
    /\ \A p \in 1..Len(jr.ops) : ~jr.ops[p].ok =>
         /\ p = Len(jr.ops)
         /\ jr.pc = "failed"
         /\ jr.err \in {"StoreError: put_object", "StoreError: get_object",
                         "StoreError: remove_object"}
    /\ BootstrapFailed(m) =>
         /\ jr.pc = "failed"
         /\ jr.err \in {"StoreError: bucket_exists", "StoreError: make_bucket"}
         /\ \A p \in 1..Len(jr.ops) : jr.ops[p].ok

(* C22: store failures are never retried: within one job each put, get and   *)
(* remove is attempted at most once per object, the first failing store call *)
(* is the job's last store call (no later upload, consolidation, archive     *)
(* upload or compensating delete), and the job ends with that failure.       *)
C22_NeverRetried ==
    \A j \in Jobs : NeverRetried(job[j], mgr[j])

\* The step on which the sweep's remove_object fails: it was called and
\* removed nothing
RemoveFails ==
    /\ sweep.pc = "loop"
    /\ sweep'.attempted # sweep.attempted
    /\ sweep'.removed = sweep.removed

\* The step on which a run fails before its loop (bootstrap or listing)
ListingFails == sweep.pc # "loop" /\ sweep' # sweep /\ sweep'.err # ""

\* C23, of a sweep that failed: what it removed is what was expired before
\* the failing object, and nothing listed after that object was touched
StoppedThere(sw) ==
    IF sw.err = "StoreError: remove_object"
    THEN \E i \in 1..Len(sw.listed) :
            /\ sw.listed[i].object_name \in sw.attempted \ sw.removed
            /\ \A k \in (i + 1)..Len(sw.listed) :
                   sw.listed[k].object_name \notin sw.attempted
            /\ \A k \in 1..(i - 1) :
                   sw.listed[k].object_name \in sw.removed
                       <=> Expired(sw.listed[k], sw.cutoff_time)
            /\ sw.deleted_count = Cardinality(sw.removed)
    ELSE sw.listed = <<>> /\ sw.attempted = {} /\ sw.removed = {}

(* C23: when the listing or a removal fails in cleanup_old_files the error   *)
(* is raised to the caller and the sweep stops there: no object listed after *)
(* the failing one is removed in that run, the objects removed before stay   *)
(* removed, and no count is returned.                                        *)
C23_SweepStopsAtFailure ==
    [][sweep' # sweep =>
         /\ (RemoveFails \/ ListingFails) =>
                /\ sweep'.pc = "failed"
                /\ store' = store
                /\ sweep'.removed = (IF RemoveFails THEN sweep.removed ELSE {})
                /\ sweep'.returned = NewSweep.returned
                /\ StoppedThere(sweep')
         /\ RemoveFails => sweep'.err = "StoreError: remove_object"
         /\ sweep.pc = "failed" => sweep'.runs = sweep.runs + 1]_vars

C23_Witness ==
    /\ sweep.pc = "failed"
    /\ sweep.err = "StoreError: remove_object"
    /\ sweep.removed = {EdgeName}
    /\ \E i \in 1..Len(sweep.listed) :
         /\ Expired(sweep.listed[i], sweep.cutoff_time)
         /\ sweep.listed[i].object_name \notin sweep.attempted
         /\ sweep.listed[i].object_name \in DOMAIN store

C23_WitnessListing ==
    /\ sweep.pc = "failed"
    /\ sweep.err = "StoreError: list_objects"

\* The manager's bucket-ensure step ran to its end: the bucket was found, or
\* was created
BucketEnsured(m) ==
    /\ ~BootstrapFailed(m)
    /\ \E i \in 1..Len(m.calls) : m.calls[i] \in {"bucket_exists: present", "make_bucket"}

(* C24: whenever a manager holds a cached client, its bucket-ensure step has *)
(* completed successfully (the bucket was found present or was created): a   *)
(* failed bucket check or creation leaves no cached client behind.           *)
C24_CachedClientHasBucket ==
    \A m \in Managers : m.client => BucketEnsured(m)

(* ======================================================================= *)
(* Two exports at a time (PairSpec)                                         *)
(* ======================================================================= *)
\* The object names a job issued a put on, and those it issued any call on
NamesPut(jr) == { jr.ops[p].name : p \in { q \in 1..Len(jr.ops) : jr.ops[q].op = "put" } }
NamesTouched(jr) == { jr.ops[p].name : p \in 1..Len(jr.ops) }

\* The data rows held by a stored object: a CSV's, or those of an archive's
\* entries
RowsOf(o) == IF IsArchive(o) THEN EntryRows(o.entries) ELSE FileRows(o.data)

\* The lines a job is given: every chunk split at "\n", blank lines dropped
RECURSIVE LinesOf(_)
LinesOf(src) ==
    IF src = <<>> THEN <<>> ELSE NonBlank(Split(Head(src), NL)) \o LinesOf(Tail(src))

(* C25: two export jobs running concurrently against the same bucket never   *)
(* interfere: no job puts to, reads or removes an object name another job    *)
(* puts to, and the object a job returned holds only that job's rows, also   *)
(* for jobs started within the same second under the same base filename.     *)
C25_NoInterference ==
    \A j \in Jobs :
        /\ \A k \in Jobs \ {j} : NamesTouched(job[j]) \cap NamesPut(job[k]) = {}
        /\ (job[j].pc = "done" /\ job[j].result.object_name \in DOMAIN store) =>
              RowSet(RowsOf(store[job[j].result.object_name]))
                  \subseteq RowSet(Tail(LinesOf(job[j].source)))

\* The files a sequence of lines (header first) makes at limit m: the header
\* and the next m rows each, the header alone when there is no row
SegmentsOf(lines, m) ==
    LET rows == Tail(lines)
        n == Len(rows)
        k == IF n = 0 THEN 1 ELSE CeilDiv(n, m)
    IN [i \in 1..k |->
          JoinLines(<<Head(lines)>> \o SubSeq(rows, (i - 1) * m + 1, Min(i * m, n)))]

\* C26 for one job: what it uploaded and what it returns, computed from the
\* non-blank lines of its source alone
ByLinesAlone(jr) ==
    LET lines == LinesOf(jr.source)
        expected == SegmentsOf(lines, jr.max_rows_per_file)
        puts == SegmentPuts(jr)
    IN
    /\ Len(puts) <= Len(expected)
    /\ \A i \in 1..Len(puts) : puts[i].sent.data = expected[i]
    /\ PastSplitting(jr) =>
          /\ Len(puts) = Len(expected)
          /\ Len(jr.uploaded_files) = Len(expected)
          /\ jr.total_rows = Len(lines) - 1
    /\ jr.pc = "done" =>
          /\ jr.result.total_rows = Len(lines) - 1
          /\ jr.result.file_count = Len(expected)

(* C26: the outcome of stream_csv_to_minio depends only on the sequence of   *)
(* non-blank lines of the source, not on their grouping into chunks nor on   *)
(* blank lines in between: the segment contents, total_rows (the non-blank   *)
(* lines less the header) and file_count are those the line sequence and the *)
(* limit determine.                                                          *)
C26_ChunkingIrrelevant ==
    \A j \in Jobs :
        (Running(job[j]) /\ MarkerFree(job[j].source)
            /\ LinesOf(job[j].source) # <<>> /\ job[j].max_rows_per_file >= 1) =>
            ByLinesAlone(job[j])

C26_Witness ==
    \E j \in Jobs :
        /\ job[j].pc = "done"
        /\ job[j].source = WithBlanks(PairLines)
        /\ job[j].result.file_count = 2
        /\ job[j].result.total_rows = 2

C26_WitnessUnterminated ==
    \E j \in Jobs :
        /\ job[j].pc = "done"
        /\ job[j].source = Unterminated(PairLines)
        /\ job[j].result.file_count = 2
        /\ job[j].result.total_rows = 2

(* ======================================================================= *)
(* Termination (FairPairSpec)                                               *)
(* ======================================================================= *)
\* A marker-free source with a header and at least one data row
HasDataRow(src) == MarkerFree(src) /\ Len(LinesOf(src)) >= 2

\* A store call of the job failed: one on an object, or one of the bootstrap
StoreCallFailed(jr, m) ==
    BootstrapFailed(m) \/ \E p \in 1..Len(jr.ops) : ~jr.ops[p].ok

\* The call has returned or raised
Ended(jr) == jr.pc \in {"done", "failed"}

(* C27: every export job over a finite source, with store calls that each    *)
(* return or fail, eventually ends by returning or raising, and takes no     *)
(* step after that; a job on a source with at least one data row and no      *)
(* error marker fails only when a store call failed, and a job that returns  *)
(* returns a descriptor whose object_name is in the store then.              *)
C27_EndsAndReturns ==
    /\ \A j \in Jobs : <>Ended(job[j])
    /\ [][\A j \in Jobs :
             /\ Ended(job[j]) => job'[j] = job[j]
             /\ Returns(j) =>
                    /\ job'[j].result.object_name \in DOMAIN store'
                    /\ job'[j].result.file_count = Len(job'[j].uploaded_files)
                    /\ job'[j].result.file_count >= 1
             /\ (job'[j].pc = "failed" /\ HasDataRow(job[j].source)) =>
                    StoreCallFailed(job'[j], mgr'[j])]_vars

C27_Witness ==
    \E j \in Jobs :
        /\ job[j].pc = "done"
        /\ HasDataRow(job[j].source)
        /\ ~StoreCallFailed(job[j], mgr[j])
        /\ job[j].result.file_count = 2
        /\ job[j].result.object_name \in DOMAIN store

C27_WitnessRaised ==
    \E j \in Jobs :
        /\ job[j].pc = "failed"
        /\ job[j].err = "StoreError: get_object"
====
